---- MODULE Spec2Model ----
(***************************************************************************)
(* Model of the user-record service: the bulk/single create, register,     *)
(* update and delete handlers over the Mongoose User model                 *)
(* (src/unnamed/part_000, src/app.js) and the Redis response cache         *)
(* middleware cache / clearCache (src/app.js).                             *)
(*                                                                         *)
(* Strings are sequences of one-character strings so that trim, lowercase  *)
(* and the two email regular expressions are computed, not assumed.        *)
(* A JavaScript value is a record [t, s, n]: t is the type tag, s the      *)
(* characters of a string, n the value of a number.                        *)
(***************************************************************************)
EXTENDS Integers, Sequences, FiniteSets, TLC

\* ------------------------------------------------------------------ bounds
\* Longest bulk request body.
MaxBatch == 2
\* Documents the database ever assigns an _id to.
MaxIds == 2

\* Seconds the clock of the cache store advances.
MaxTime == 2
\* Writes to the data the cached handlers read.
MaxVer == 1

\* Concurrent requests in flight.
Procs == {1, 2}

\* ------------------------------------------------------- JavaScript values
Undef == [t |-> "undefined", s |-> <<>>, n |-> 0]
Null == [t |-> "null", s |-> <<>>, n |-> 0]
Str(x) == [t |-> "string", s |-> x, n |-> 0]
Num(k) == [t |-> "number", s |-> <<>>, n |-> k]

\* !v in JavaScript: undefined, null, "" and 0 are falsy.
Falsy(v) ==
    \/ v.t \in {"undefined", "null"}
    \/ v.t = "string" /\ v.s = <<>>
    \/ v.t = "number" /\ v.n = 0

Whitespace == {" "}
WordChars == {"a", "b", "c", "o", "x", "A", "B", "s", "e", "r", "t", "_"}

ToLower(c) == CASE c = "A" -> "a" [] c = "B" -> "b" [] OTHER -> c
Lowercase(s) == [k \in DOMAIN s |-> ToLower(s[k])]

RECURSIVE TrimLeft(_)
TrimLeft(s) == IF s # <<>> /\ Head(s) \in Whitespace THEN TrimLeft(Tail(s)) ELSE s
RECURSIVE TrimRight(_)
TrimRight(s) ==
    IF s # <<>> /\ s[Len(s)] \in Whitespace
    THEN TrimRight(SubSeq(s, 1, Len(s) - 1))
    ELSE s
Trim(s) == TrimRight(TrimLeft(s))

\* /^[^\s@]+@[^\s@]+\.[^\s@]+$/ : X@Y.Z with X, Y, Z non-empty and free of
\* whitespace and "@" (Y and Z may hold further dots).
ValidatorEmailRegex(s) ==
    \E a \in 2..Len(s) :
        /\ s[a] = "@"
        /\ \A k \in (1..Len(s)) \ {a} : s[k] \notin (Whitespace \cup {"@"})
        /\ \E d \in (a + 2)..(Len(s) - 1) : s[d] = "."

\* \w+([\.-]?\w+)* : word characters with single "." or "-" between them.
WordGroups(s) ==
    /\ s # <<>>
    /\ s[1] \in WordChars
    /\ s[Len(s)] \in WordChars
    /\ \A k \in 1..Len(s) : s[k] \in WordChars \cup {".", "-"}
    /\ \A k \in 1..(Len(s) - 1) : ~(s[k] \in {".", "-"} /\ s[k + 1] \in {".", "-"})

\* /^\w+([\.-]?\w+)*@\w+([\.-]?\w+)*(\.\w{2,3})+$/
SchemaEmailRegex(s) ==
    \E a \in 2..Len(s) :
        /\ s[a] = "@"
        /\ WordGroups(SubSeq(s, 1, a - 1))
        /\ \E w \in {2, 3} :
            /\ Len(s) - w - 1 > a
            /\ s[Len(s) - w] = "."
            /\ \A k \in (Len(s) - w + 1)..Len(s) : s[k] \in WordChars
            /\ WordGroups(SubSeq(s, a + 1, Len(s) - w - 1))

\* ------------------------------------------------------------- validator
\* One issue of validateUserData: express-validator's shape, path and msg.
Issue(path, msg) == [type |-> "field", path |-> path, msg |-> msg]

NameIssues(u) ==
    IF Falsy(u.name) THEN <<Issue("name", "Name is required")>> ELSE <<>>

EmailIssues(u) ==
    IF Falsy(u.email) THEN <<Issue("email", "Email is required")>>
    ELSE IF ~(u.email.t = "string" /\ ValidatorEmailRegex(u.email.s))
    THEN <<Issue("email", "Please enter a valid email")>>
    ELSE <<>>

AgeIssues(u) ==
    IF u.age.t \in {"undefined", "null"} THEN <<Issue("age", "Age is required")>>
    ELSE IF u.age.t # "number" \/ u.age.n < 1 \/ u.age.n > 120
    THEN <<Issue("age", "Age must be between 1 and 120")>>
    ELSE <<>>

validateUserData(u) == NameIssues(u) \o EmailIssues(u) \o AgeIssues(u)

\* ---------------------------------------------------------- request inputs
EmailA == <<"a", "@", "x", ".", "c", "o">>
EmailAUpper == <<"A", "@", "x", ".", "c", "o">>
EmailB == <<"b", "@", "x", ".", "c", "o">>
EmailNoAt == <<"a", "x">>
Secret == <<"s", "e", "c", "r", "e", "t">>

\* An element of a request body; nul marks a JSON null element.
Item(name, email, age, password) ==
    [nul |-> FALSE, name |-> name, email |-> email, age |-> age, password |-> password]
NullItem == [nul |-> TRUE, name |-> Undef, email |-> Undef, age |-> Undef, password |-> Undef]

ItemA == Item(Str(<<"A">>), Str(EmailA), Num(25), Str(Secret))
ItemAUpper == Item(Str(<<"A", " ">>), Str(EmailAUpper), Num(25), Str(Secret))
ItemB == Item(Str(<<"B">>), Str(EmailB), Num(30), Str(Secret))
\* The README's request shape: no password field.
ItemNoPassword == Item(Str(<<"A">>), Str(EmailB), Num(25), Undef)
ItemNoName == Item(Undef, Str(EmailB), Num(25), Str(Secret))
ItemBlankName == Item(Str(<<" ">>), Str(EmailB), Num(25), Str(Secret))
ItemInvalid == Item(Undef, Str(EmailNoAt), Num(121), Str(Secret))

\* Elements of a bulk request body.
Items ==
    {ItemA, ItemAUpper, ItemB, ItemNoPassword, ItemInvalid, ItemBlankName, NullItem}

RECURSIVE SeqsUpTo(_, _)
SeqsUpTo(S, k) ==
    IF k = 0 THEN {<<>>}
    ELSE LET shorter == SeqsUpTo(S, k - 1)
         IN shorter \cup {Append(b, x) : b \in {c \in shorter : Len(c) = k - 1}, x \in S}

Bodies == SeqsUpTo(Items, MaxBatch)
\* Request bodies that repeat one valid item.
ValidBodies == SeqsUpTo({ItemA}, MaxBatch)
\* Objects sent to the single create.
Objects == (Items \ {NullItem}) \cup {ItemNoName}
\* Objects sent to register.
Registrations == {ItemA, ItemAUpper, ItemB, ItemNoPassword}

\* req.params.id: an ObjectId the database may hold, or a string that is
\* no ObjectId (modelled as -1).
IdParams == (1..MaxIds) \cup {-1}
IsObjectId(id) == id > 0

\* req.body of PUT /api/users/:id.
Fields(name, email, age) == [name |-> name, email |-> email, age |-> age]
UpdateBodies ==
    {Fields(Undef, Undef, Num(30)),
     Fields(Str(<<" ", "B">>), Undef, Undef),
     Fields(Undef, Str(EmailAUpper), Undef),
     Fields(Undef, Str(EmailB), Num(30)),
     Fields(Undef, Undef, Undef),
     Fields(Undef, Undef, Null),
     Fields(Undef, Str(EmailNoAt), Undef),
     Fields(Undef, Undef, Num(121))}

\* ------------------------------------------------------------ User schema
\* The setters of the schema's String paths.
CastName(v) == IF v.t = "string" THEN Str(Trim(v.s)) ELSE v
CastEmail(v) == IF v.t = "string" THEN Str(Lowercase(Trim(v.s))) ELSE v

\* The validators of each path, on the value its setters produced.
NameValid(v) == v.t = "string" /\ v.s # <<>>
EmailValid(v) == v.t = "string" /\ v.s # <<>> /\ SchemaEmailRegex(v.s)
PasswordValid(v) == v.t = "string" /\ Len(v.s) >= 6
AgeValid(v) == v.t = "number" /\ v.n >= 1 /\ v.n <= 120

\* document.validate() of new User(u): every path is validated.
SchemaValid(u) ==
    /\ NameValid(CastName(u.name))
    /\ EmailValid(CastEmail(u.email))
    /\ PasswordValid(u.password)
    /\ AgeValid(u.age)

\* The stored document of new User(u) once the database gave it its _id.
Doc(id, u) ==
    [id |-> id, name |-> CastName(u.name).s, email |-> CastEmail(u.email).s,
     age |-> u.age.n]

\* ------------------------------------------------------------------ state
VARIABLES
    store,      \* the users collection: a set of documents
    nextId,     \* the next _id the database assigns
    pc,         \* per request slot: where its handler is suspended
    kind,       \* per request slot: the handler serving its request
    body,       \* per request slot: req.body, kept while the handler needs it
    i,          \* POST /api/users, bulk branch: the loop index
    results,    \* bulk branch: const results
    errors,     \* bulk branch: const errors
    status,     \* the status of the response sent (0: none yet)
    resultIdx,  \* history: the input index behind each element of results
    attempts,   \* history: every user.save() of the bulk loop, <<index, outcome>>
    reported    \* history: per email, creations answered as success and not yet freed

userVars ==
    <<store, nextId, pc, kind, body, i, results, errors, status, resultIdx, attempts,
      reported>>

Emails == {EmailA, EmailB}

\* ------------------------------------------------------------ persistence
\* The outcomes user.save() / User.create() can have for input u: the
\* schema's validation, then the insert under the unique index on email;
\* any call may also fail for a reason of the connection.
MutInsertNoUniqueIndex(u, st) ==
    {"NetworkError"} \cup (IF ~SchemaValid(u) THEN {"ValidationError"} ELSE {"ok"})
\* Variant where a taken email surfaces as a validation error of the save.
MutInsertDuplicateAsValidation(u, st) ==
    {"NetworkError"} \cup
    (IF ~SchemaValid(u) \/ \E d \in st : d.email = CastEmail(u.email).s
     THEN {"ValidationError"}
     ELSE {"ok"})
InsertOutcomes(u, st) ==
    {"NetworkError"} \cup
    (IF ~SchemaValid(u) THEN {"ValidationError"}
     ELSE IF \E d \in st : d.email = CastEmail(u.email).s THEN {"E11000"}
     ELSE {"ok"})

\* The collection after an insert with outcome out.
Inserted(st, id, u, out) == IF out = "ok" THEN st \cup {Doc(id, u)} ELSE st

\* History: email e answered as created / a document with email e gone.
Report(rep, e) == IF e \in DOMAIN rep THEN [rep EXCEPT ![e] = @ + 1] ELSE rep
Free(rep, e) ==
    IF e \in DOMAIN rep THEN [rep EXCEPT ![e] = IF @ > 0 THEN @ - 1 ELSE @] ELSE rep

\* ------------------------------------------- POST /api/users, bulk branch
DuplicateIssue == Issue("email", "Email already exists")
ErrorIssue(msg) == [type |-> "error", path |-> "", msg |-> msg]

\* One iteration of the loop on item u at index idx, where out is the
\* outcome of user.save() (not called when validation fails) and doc the
\* saved document: what is pushed to results and to errors.
MutIterationNoContinue(u, idx, out, doc) ==
    IF validateUserData(u) # <<>>
    THEN [created |-> <<doc>>,
          failed |-> <<[index |-> idx, errors |-> validateUserData(u)]>>]
    ELSE IF out = "ok" THEN [created |-> <<doc>>, failed |-> <<>>]
    ELSE IF out = "E11000"
    THEN [created |-> <<>>, failed |-> <<[index |-> idx, errors |-> <<DuplicateIssue>>]>>]
    ELSE [created |-> <<>>, failed |-> <<[index |-> idx, errors |-> <<ErrorIssue(out)>>]>>]
MutIterationPushBeforeSave(u, idx, out, doc) ==
    IF validateUserData(u) # <<>>
    THEN [created |-> <<>>,
          failed |-> <<[index |-> idx, errors |-> validateUserData(u)]>>]
    ELSE IF out = "ok" THEN [created |-> <<doc>>, failed |-> <<>>]
    ELSE IF out = "E11000"
    THEN [created |-> <<doc>>, failed |-> <<[index |-> idx, errors |-> <<DuplicateIssue>>]>>]
    ELSE [created |-> <<>>, failed |-> <<[index |-> idx, errors |-> <<ErrorIssue(out)>>]>>]
MutIterationNoDuplicateBranch(u, idx, out, doc) ==
    IF validateUserData(u) # <<>>
    THEN [created |-> <<>>,
          failed |-> <<[index |-> idx, errors |-> validateUserData(u)]>>]
    ELSE IF out = "ok" THEN [created |-> <<doc>>, failed |-> <<>>]
    ELSE [created |-> <<>>, failed |-> <<[index |-> idx, errors |-> <<ErrorIssue(out)>>]>>]
BulkIteration(u, idx, out, doc) ==
    IF validateUserData(u) # <<>>
    THEN [created |-> <<>>,
          failed |-> <<[index |-> idx, errors |-> validateUserData(u)]>>]
    ELSE IF out = "ok" THEN [created |-> <<doc>>, failed |-> <<>>]
    ELSE IF out = "E11000"
    THEN [created |-> <<>>, failed |-> <<[index |-> idx, errors |-> <<DuplicateIssue>>]>>]
    ELSE [created |-> <<>>, failed |-> <<[index |-> idx, errors |-> <<ErrorIssue(out)>>]>>]

\* The response once the loop is over: 207 with created and errors, or 201.
BulkStatus(errs) == IF Len(errs) > 0 THEN 207 ELSE 201

\* The request arrives; an empty array is answered at once.
StartBulk(p, arrays) ==
    /\ pc[p] = "idle"
    /\ \A q \in Procs : kind[q] # "bulk"
    /\ \E b \in arrays :
        /\ kind' = [kind EXCEPT ![p] = "bulk"]
        /\ body' = [body EXCEPT ![p] = b]
        /\ pc' = [pc EXCEPT ![p] = IF b = <<>> THEN "done" ELSE "loop"]
        /\ status' = [status EXCEPT ![p] = IF b = <<>> THEN BulkStatus(<<>>) ELSE 0]
    /\ UNCHANGED <<store, nextId, i, results, errors, resultIdx, attempts, reported>>

\* One iteration: validateUserData, then await user.save(). A null element
\* makes validateUserData throw a TypeError, which only the handler's outer
\* catch sees: 500 for the whole request.
BulkStep(p) ==
    /\ pc[p] = "loop"
    /\ LET u == body[p][i[p] + 1]
           last == i[p] + 1 = Len(body[p])
       IN IF u.nul
          THEN /\ pc' = [pc EXCEPT ![p] = "done"]
               /\ status' = [status EXCEPT ![p] = 500]
               /\ UNCHANGED <<store, nextId, i, results, errors, resultIdx,
                              attempts, reported>>
          ELSE \E out \in (IF validateUserData(u) # <<>> THEN {"skipped"}
                           ELSE InsertOutcomes(u, store)) :
               LET doc == Doc(nextId, u)
                   it == BulkIteration(u, i[p], out, doc)
               IN /\ out = "ok" => nextId <= MaxIds
                  /\ store' = Inserted(store, nextId, u, out)
                  /\ nextId' = IF out = "ok" THEN nextId + 1 ELSE nextId
                  /\ results' = [results EXCEPT ![p] = @ \o it.created]
                  /\ resultIdx' = [resultIdx EXCEPT ![p] =
                                     @ \o [k \in 1..Len(it.created) |-> i[p]]]
                  /\ errors' = [errors EXCEPT ![p] = @ \o it.failed]
                  /\ attempts' = [attempts EXCEPT ![p] =
                                    IF out = "skipped" THEN @ ELSE Append(@, <<i[p], out>>)]
                  /\ reported' = IF it.created # <<>>
                                 THEN Report(reported, it.created[1].email)
                                 ELSE reported
                  /\ i' = [i EXCEPT ![p] = @ + 1]
                  /\ pc' = [pc EXCEPT ![p] = IF last THEN "done" ELSE "loop"]
                  /\ status' = [status EXCEPT ![p] =
                                  IF last THEN BulkStatus(errors'[p]) ELSE 0]
    /\ UNCHANGED <<kind, body>>

\* ------------------------------------------ POST /api/users, single branch
\* Status of the single create for validation issues v and save outcome out.
CreateStatus(v, out) ==
    IF v # <<>> THEN 400
    ELSE IF out = "ok" THEN 201
    ELSE IF out = "E11000" THEN 400
    ELSE 500

CreateOne(p, objects) ==
    /\ pc[p] = "idle"
    /\ \E u \in objects :
        \E out \in (IF validateUserData(u) # <<>> THEN {"skipped"}
                    ELSE InsertOutcomes(u, store)) :
            /\ out = "ok" => nextId <= MaxIds
            /\ store' = Inserted(store, nextId, u, out)
            /\ nextId' = IF out = "ok" THEN nextId + 1 ELSE nextId
            /\ reported' = IF CreateStatus(validateUserData(u), out) = 201
                           THEN Report(reported, Doc(nextId, u).email)
                           ELSE reported
            /\ kind' = [kind EXCEPT ![p] = "create"]
            /\ status' = [status EXCEPT ![p] = CreateStatus(validateUserData(u), out)]
            /\ pc' = [pc EXCEPT ![p] = "done"]
    /\ UNCHANGED <<body, i, results, errors, resultIdx, attempts>>

\* ------------------------------------------------ POST /api/auth/register
\* User.findOne({ email }): the filter is cast by the schema's setters.
FindOneByEmail(st, email) ==
    \E d \in st : email.t = "string" /\ d.email = CastEmail(email).s

\* await User.findOne: an existing user answers 400, a failed query 500.
RegisterFind(p, objects) ==
    /\ pc[p] = "idle"
    /\ \E u \in objects :
        \E out \in {"answered", "NetworkError"} :
            /\ kind' = [kind EXCEPT ![p] = "register"]
            /\ IF out = "NetworkError"
               THEN /\ pc' = [pc EXCEPT ![p] = "done"]
                    /\ status' = [status EXCEPT ![p] = 500]
                    /\ UNCHANGED body
               ELSE IF FindOneByEmail(store, u.email)
               THEN /\ pc' = [pc EXCEPT ![p] = "done"]
                    /\ status' = [status EXCEPT ![p] = 400]
                    /\ UNCHANGED body
               ELSE /\ pc' = [pc EXCEPT ![p] = "create"]
                    /\ body' = [body EXCEPT ![p] = <<u>>]
                    /\ UNCHANGED status
    /\ UNCHANGED <<store, nextId, i, results, errors, resultIdx, attempts, reported>>

\* await User.create: any rejection, the duplicate key among them, is a 500.
RegisterStatus(out) == IF out = "ok" THEN 201 ELSE 500

RegisterCreate(p) ==
    /\ pc[p] = "create"
    /\ \E out \in InsertOutcomes(body[p][1], store) :
        /\ out = "ok" => nextId <= MaxIds
        /\ store' = Inserted(store, nextId, body[p][1], out)
        /\ nextId' = IF out = "ok" THEN nextId + 1 ELSE nextId
        /\ reported' = IF RegisterStatus(out) = 201
                       THEN Report(reported, Doc(nextId, body[p][1]).email)
                       ELSE reported
        /\ status' = [status EXCEPT ![p] = RegisterStatus(out)]
        /\ pc' = [pc EXCEPT ![p] = "done"]
        /\ body' = [body EXCEPT ![p] = <<>>]
    /\ UNCHANGED <<kind, i, results, errors, resultIdx, attempts>>

\* --------------------------------------------------- PUT /api/users/:id
\* const updates: a field of the body is taken when it is not undefined.
Present(v) == v.t # "undefined"

\* runValidators: the validators of the paths in $set, on the cast values.
UpdateValid(f) ==
    /\ Present(f.name) => NameValid(CastName(f.name))
    /\ Present(f.email) => EmailValid(CastEmail(f.email))
    /\ Present(f.age) => AgeValid(f.age)

\* { $set: updates } applied to document d.
MutUpdatedDocAllFields(d, f) ==
    [id |-> d.id, name |-> CastName(f.name).s, email |-> CastEmail(f.email).s,
     age |-> f.age.n]
UpdatedDoc(d, f) ==
    [id |-> d.id,
     name |-> IF Present(f.name) THEN CastName(f.name).s ELSE d.name,
     email |-> IF Present(f.email) THEN CastEmail(f.email).s ELSE d.email,
     age |-> IF Present(f.age) THEN f.age.n ELSE d.age]

\* The outcomes of User.findByIdAndUpdate(id, { $set }, { runValidators }).
UpdateOutcomes(st, id, f) ==
    {"NetworkError"} \cup
    (IF ~IsObjectId(id) THEN {"CastError"}
     ELSE IF ~UpdateValid(f) THEN {"ValidationError"}
     ELSE IF ~\E d \in st : d.id = id THEN {"null"}
     ELSE IF \E d \in st, o \in st :
                 d.id = id /\ o.id # id /\ o.email = UpdatedDoc(d, f).email
     THEN {"E11000"}
     ELSE {"ok"})

UpdateStatus(out) ==
    CASE out = "ok" -> 200
      [] out = "null" -> 404
      [] out \in {"CastError", "E11000", "ValidationError"} -> 400
      [] OTHER -> 500

\* The handler on slot p for identifier id and body f.
UpdateRequest(p, id, f) ==
    /\ pc[p] = "idle"
    /\ \E out \in UpdateOutcomes(store, id, f) :
        /\ IF out = "ok"
           THEN LET d == CHOOSE x \in store : x.id = id
                IN /\ store' = (store \ {d}) \cup {UpdatedDoc(d, f)}
                   /\ reported' = IF UpdatedDoc(d, f).email # d.email
                                  THEN Free(reported, d.email)
                                  ELSE reported
           ELSE UNCHANGED <<store, reported>>
        /\ kind' = [kind EXCEPT ![p] = "update"]
        /\ status' = [status EXCEPT ![p] = UpdateStatus(out)]
        /\ pc' = [pc EXCEPT ![p] = "done"]
    /\ UNCHANGED <<nextId, body, i, results, errors, resultIdx, attempts>>

Update(p) == \E id \in IdParams, f \in UpdateBodies : UpdateRequest(p, id, f)

\* ------------------------------------------------ DELETE /api/users/:id
DeleteOutcomes(st, id) ==
    {"NetworkError"} \cup
    (IF ~IsObjectId(id) THEN {"CastError"}
     ELSE IF ~\E d \in st : d.id = id THEN {"null"}
     ELSE {"ok"})

DeleteStatus(out) ==
    CASE out = "ok" -> 204
      [] out = "null" -> 404
      [] out = "CastError" -> 400
      [] OTHER -> 500

Delete(p) ==
    /\ pc[p] = "idle"
    /\ \E id \in IdParams :
        \E out \in DeleteOutcomes(store, id) :
            /\ IF out = "ok"
               THEN LET d == CHOOSE x \in store : x.id = id
                    IN /\ store' = store \ {d}
                       /\ reported' = Free(reported, d.email)
               ELSE UNCHANGED <<store, reported>>
            /\ kind' = [kind EXCEPT ![p] = "delete"]
            /\ status' = [status EXCEPT ![p] = DeleteStatus(out)]
            /\ pc' = [pc EXCEPT ![p] = "done"]
    /\ UNCHANGED <<nextId, body, i, results, errors, resultIdx, attempts>>

\* The response has been sent: the slot serves the next request.
Finish(p) ==
    /\ pc[p] = "done"
    /\ pc' = [pc EXCEPT ![p] = "idle"]
    /\ kind' = [kind EXCEPT ![p] = "none"]
    /\ body' = [body EXCEPT ![p] = <<>>]
    /\ i' = [i EXCEPT ![p] = 0]
    /\ results' = [results EXCEPT ![p] = <<>>]
    /\ errors' = [errors EXCEPT ![p] = <<>>]
    /\ resultIdx' = [resultIdx EXCEPT ![p] = <<>>]
    /\ attempts' = [attempts EXCEPT ![p] = <<>>]
    /\ status' = [status EXCEPT ![p] = 0]
    /\ UNCHANGED <<store, nextId, reported>>

\* ------------------------------------------ Redis response cache (app.js)
\* Requests through a cache(key, ttl) middleware and through a
\* clearCache(keyPattern) middleware.
Readers == {1}
Clearers == {2}
CacheProcs == Readers \cup Clearers

KeyU1 == <<"u", "1">>
KeyA == <<"a">>
CacheKeys == {KeyU1, KeyA}

\* The mounted middlewares cache(key, ttl): without a key and with an empty
\* key the request's URL is the cache key.
Mounts ==
    { [key |-> Undef, ttl |-> 1],
      [key |-> Str(<<>>), ttl |-> 1],
      [key |-> Str(KeyA), ttl |-> 2] }
Urls == {KeyU1}

\* key || req.originalUrl
CacheKey(key, originalUrl) == IF Falsy(key) THEN originalUrl ELSE key.s

\* The mounted clearCache(keyPattern) patterns.
Patterns == { <<"u", "*">>, <<"*">>, <<"a">>, <<"z", "*">> }

\* Glob match of the KEYS command: "*" stands for any run of characters.
RECURSIVE Matches(_, _)
Matches(pat, key) ==
    IF pat = <<>> THEN key = <<>>
    ELSE IF Head(pat) = "*"
         THEN \/ Matches(Tail(pat), key)
              \/ key # <<>> /\ Matches(pat, Tail(key))
         ELSE /\ key # <<>>
              /\ Head(pat) = Head(key)
              /\ Matches(Tail(pat), Tail(key))

\* Response bodies: the payload a handler builds from the data at version n,
\* and its error body.
Obj(n) == [t |-> "object", s |-> <<>>, n |-> n]
ErrBody == [t |-> "object", s |-> <<"e">>, n |-> 0]

Digits == <<"0", "1", "2", "3", "4", "5", "6", "7", "8", "9">>
DigitOf(c) == CHOOSE n \in 0..9 : Digits[n + 1] = c

\* JSON.stringify(body): the text of an object; undefined for undefined.
JSONStringify(v) ==
    CASE v.t = "object" -> Str(<<"{">> \o v.s \o <<Digits[v.n + 1], "}">>)
      [] v.t = "null" -> Str(<<"n", "u", "l", "l">>)
      [] OTHER -> Undef

\* JSON.parse(text)
JSONParse(text) ==
    IF text = <<"n", "u", "l", "l">> THEN Null
    ELSE [t |-> "object",
          s |-> SubSeq(text, 2, Len(text) - 2),
          n |-> DigitOf(text[Len(text) - 1])]

\* The argument ioredis sends for a JavaScript value.
ToArg(v) == IF v.t \in {"undefined", "null"} THEN <<>> ELSE v.s

\* Variant of the wrapper that stores the body whatever the status.
MutCacheAnyStatus(statusCode) == TRUE

\* res.statusCode === 200
ShouldCache(statusCode) == statusCode = 200

\* The key-value store: per key the stored text and its expiry time.
NoEntry == [has |-> FALSE, val |-> <<>>, exp |-> 0]
\* Variant of the lookup that never finds an entry.
MutGetAlwaysMiss(r, k) == Null
RedisGet(r, k) == IF r[k].has THEN Str(r[k].val) ELSE Null
RedisSetex(r, k, seconds, val, t) ==
    [r EXCEPT ![k] = [has |-> TRUE, val |-> val, exp |-> t + seconds]]
RedisKeys(r, pat) == {k \in CacheKeys : r[k].has /\ Matches(pat, k)}
\* Variant of the delete that removes the first key it is given only.
MutDelFirstKey(r, ks) ==
    [k \in CacheKeys |->
        IF ks # {} /\ k = (CHOOSE x \in ks : TRUE) THEN NoEntry ELSE r[k]]
RedisDel(r, ks) == [k \in CacheKeys |-> IF k \in ks THEN NoEntry ELSE r[k]]

\* clearCache(keyPattern) run with no other command in between.
Invalidate(r, pat) ==
    IF RedisKeys(r, pat) # {} THEN RedisDel(r, RedisKeys(r, pat)) ELSE r
Expire(r, t) ==
    [k \in CacheKeys |-> IF r[k].has /\ r[k].exp <= t THEN NoEntry ELSE r[k]]

\* The outcome of one command sent to the store.
RedisOutcomes == {"ok", "error"}

VARIABLES
    redis,          \* the key-value store
    now,            \* its clock, in seconds
    data,           \* version of the data the handlers read
    cpc,            \* position of each request in its middleware chain
    cacheKey,       \* const cacheKey
    ttl,            \* ttl of the middleware the request came through
    overridden,     \* res.json has been replaced by the caching wrapper
    fetched,        \* body the downstream handler built
    statusCode,     \* res.statusCode
    sent,           \* body sent to the client
    logged,         \* what the middleware wrote to the console
    keyPattern,     \* keyPattern of the clearCache the request came through
    keys,           \* const keys
    unhandled,      \* a rejected setex promise nobody handles is pending
    crashed,        \* the process has exited
    lastStore,      \* history: per key, the last body stored and still due
    dataSeen        \* history: version of the data when the invalidation began

cacheVars == <<redis, now, data, cpc, cacheKey, ttl, overridden, fetched,
               statusCode, sent, logged, keyPattern, keys, unhandled,
               crashed, lastStore, dataSeen>>

NoStore == [set |-> FALSE, body |-> Undef, at |-> 0, ttl |-> 0]
Due(ls, t) == ls.set /\ t < ls.at + ls.ttl

\* cache(key, ttl): the lookup and what follows it up to next().
CacheGet(p) ==
    /\ ~crashed
    /\ cpc[p] = "idle"
    /\ \E m \in Mounts, url \in Urls, out \in RedisOutcomes :
        LET k == CacheKey(m.key, url)
            cachedData == RedisGet(redis, k)
        IN /\ cacheKey' = [cacheKey EXCEPT ![p] = k]
           /\ IF out = "error"
              THEN /\ logged' = [logged EXCEPT ![p] = "Cache error"]
                   /\ cpc' = [cpc EXCEPT ![p] = "load"]
                   /\ ttl' = [ttl EXCEPT ![p] = m.ttl]
                   /\ UNCHANGED <<overridden, statusCode, sent>>
              ELSE IF ~Falsy(cachedData)
              THEN /\ logged' = [logged EXCEPT ![p] = "Serving from cache"]
                   /\ statusCode' = [statusCode EXCEPT ![p] = 200]
                   /\ sent' = [sent EXCEPT ![p] = JSONParse(cachedData.s)]
                   /\ cpc' = [cpc EXCEPT ![p] = "done"]
                   /\ UNCHANGED <<overridden, ttl>>
              ELSE /\ overridden' = [overridden EXCEPT ![p] = TRUE]
                   /\ cpc' = [cpc EXCEPT ![p] = "load"]
                   /\ ttl' = [ttl EXCEPT ![p] = m.ttl]
                   /\ UNCHANGED <<logged, statusCode, sent>>
    /\ UNCHANGED <<dataSeen, redis, now, data, fetched, keyPattern, keys, unhandled,
                   crashed, lastStore>>

\* The downstream handler reads the data, or fails.
Load(p) ==
    /\ ~crashed
    /\ p \in Readers
    /\ cpc[p] = "load"
    /\ \E code \in {200, 404, 500} :
        /\ fetched' = [fetched EXCEPT ![p] = IF code = 200 THEN Obj(data) ELSE ErrBody]
        /\ statusCode' = [statusCode EXCEPT ![p] = code]
    /\ cpc' = [cpc EXCEPT ![p] = "respond"]
    /\ UNCHANGED <<dataSeen, redis, now, data, cacheKey, ttl, overridden, sent, logged,
                   keyPattern, keys, unhandled, crashed, lastStore>>

\* The handler calls res.json(body): through the wrapper, a 200 answer is
\* stored with setex, whose promise is neither awaited nor caught.
Respond(p) ==
    /\ ~crashed
    /\ p \in Readers
    /\ cpc[p] = "respond"
    /\ IF overridden[p] /\ ShouldCache(statusCode[p])
       THEN \E out \in RedisOutcomes :
            IF out = "ok"
            THEN /\ redis' = RedisSetex(redis, cacheKey[p], ttl[p],
                                        ToArg(JSONStringify(fetched[p])), now)
                 /\ lastStore' = [lastStore EXCEPT ![cacheKey[p]] =
                        [set |-> TRUE, body |-> fetched[p], at |-> now,
                         ttl |-> ttl[p]]]
                 /\ UNCHANGED unhandled
            ELSE /\ unhandled' = TRUE
                 /\ UNCHANGED <<redis, lastStore>>
       ELSE UNCHANGED <<redis, lastStore, unhandled>>
    /\ sent' = [sent EXCEPT ![p] = fetched[p]]
    /\ cpc' = [cpc EXCEPT ![p] = "done"]
    /\ UNCHANGED <<dataSeen, now, data, cacheKey, ttl, overridden, fetched, statusCode,
                   logged, keyPattern, keys, crashed>>

\* The rejection of the setex promise reaches the process with no handler:
\* a warning or the end of the process, by the Node.js version (the README
\* asks for v14 or higher; from v15 the default is to throw).
UnhandledRejection ==
    /\ ~crashed
    /\ unhandled
    /\ unhandled' = FALSE
    /\ \E mode \in {"warn", "throw"} :
        IF mode = "throw"
        THEN /\ crashed' = TRUE
             /\ cpc' = [p \in CacheProcs |->
                            IF cpc[p] \in {"idle", "done"} THEN cpc[p] ELSE "failed"]
        ELSE UNCHANGED <<crashed, cpc>>
    /\ UNCHANGED <<dataSeen, redis, now, data, cacheKey, ttl, overridden, fetched,
                   statusCode, sent, logged, keyPattern, keys, lastStore>>

\* clearCache(keyPattern): the scan; with no key found, next().
ClearKeys(q) ==
    /\ ~crashed
    /\ q \in Clearers
    /\ cpc[q] = "idle"
    /\ \E pat \in Patterns, out \in RedisOutcomes :
        /\ keyPattern' = [keyPattern EXCEPT ![q] = pat]
        /\ IF out = "error"
           THEN /\ logged' = [logged EXCEPT ![q] = "Cache clear error"]
                /\ cpc' = [cpc EXCEPT ![q] = "done"]
                /\ UNCHANGED keys
           ELSE /\ keys' = [keys EXCEPT ![q] = RedisKeys(redis, pat)]
                /\ cpc' = [cpc EXCEPT ![q] =
                       IF RedisKeys(redis, pat) # {} THEN "del" ELSE "done"]
                /\ UNCHANGED logged
    /\ dataSeen' = [dataSeen EXCEPT ![q] = data]
    /\ UNCHANGED <<redis, now, data, cacheKey, ttl, overridden, fetched,
                   statusCode, sent, unhandled, crashed, lastStore>>

\* clearCache(keyPattern): the delete of the keys found, then next().
ClearDel(q) ==
    /\ ~crashed
    /\ q \in Clearers
    /\ cpc[q] = "del"
    /\ \E out \in RedisOutcomes :
        IF out = "ok"
        THEN /\ redis' = RedisDel(redis, keys[q])
             /\ lastStore' = [k \in CacheKeys |->
                    IF k \in keys[q] THEN NoStore ELSE lastStore[k]]
             /\ logged' = [logged EXCEPT ![q] = "Cleared cache"]
        ELSE /\ logged' = [logged EXCEPT ![q] = "Cache clear error"]
             /\ UNCHANGED <<redis, lastStore>>
    /\ cpc' = [cpc EXCEPT ![q] = "done"]
    /\ UNCHANGED <<dataSeen, now, data, cacheKey, ttl, overridden, fetched, statusCode,
                   sent, keyPattern, keys, unhandled, crashed>>

\* A write changes the data the handlers read.
Write ==
    /\ ~crashed
    /\ data < MaxVer
    /\ data' = data + 1
    /\ UNCHANGED <<dataSeen, redis, now, cpc, cacheKey, ttl, overridden, fetched,
                   statusCode, sent, logged, keyPattern, keys, unhandled,
                   crashed, lastStore>>

\* A second passes: the store drops the entries whose time is over.
Tick ==
    /\ now < MaxTime
    /\ now' = now + 1
    /\ redis' = Expire(redis, now + 1)
    /\ lastStore' = [k \in CacheKeys |->
                        IF Due(lastStore[k], now + 1) THEN lastStore[k] ELSE NoStore]
    /\ UNCHANGED <<dataSeen, data, cpc, cacheKey, ttl, overridden, fetched, statusCode,
                   sent, logged, keyPattern, keys, unhandled, crashed>>

\* The response has been sent: the slot serves the next request.
CacheFinish(p) ==
    /\ ~crashed
    /\ cpc[p] = "done"
    /\ cpc' = [cpc EXCEPT ![p] = "idle"]
    /\ cacheKey' = [cacheKey EXCEPT ![p] = <<>>]
    /\ ttl' = [ttl EXCEPT ![p] = 0]
    /\ overridden' = [overridden EXCEPT ![p] = FALSE]
    /\ fetched' = [fetched EXCEPT ![p] = Undef]
    /\ statusCode' = [statusCode EXCEPT ![p] = 0]
    /\ sent' = [sent EXCEPT ![p] = Undef]
    /\ logged' = [logged EXCEPT ![p] = ""]
    /\ keyPattern' = [keyPattern EXCEPT ![p] = <<>>]
    /\ keys' = [keys EXCEPT ![p] = {}]
    /\ dataSeen' = [dataSeen EXCEPT ![p] = 0]
    /\ UNCHANGED <<redis, now, data, unhandled, crashed, lastStore>>

CacheInit ==
    /\ redis = [k \in CacheKeys |-> NoEntry]
    /\ now = 0
    /\ data = 0
    /\ cpc = [p \in CacheProcs |-> "idle"]
    /\ cacheKey = [p \in CacheProcs |-> <<>>]
    /\ ttl = [p \in CacheProcs |-> 0]
    /\ overridden = [p \in CacheProcs |-> FALSE]
    /\ fetched = [p \in CacheProcs |-> Undef]
    /\ statusCode = [p \in CacheProcs |-> 0]
    /\ sent = [p \in CacheProcs |-> Undef]
    /\ logged = [p \in CacheProcs |-> ""]
    /\ keyPattern = [p \in CacheProcs |-> <<>>]
    /\ keys = [p \in CacheProcs |-> {}]
    /\ unhandled = FALSE
    /\ crashed = FALSE
    /\ lastStore = [k \in CacheKeys |-> NoStore]
    /\ dataSeen = [p \in CacheProcs |-> 0]

\* ---------------------------------------------------------- specification
vars == <<userVars, cacheVars>>

UserInit ==
    /\ store = {}
    /\ nextId = 1
    /\ pc = [p \in Procs |-> "idle"]
    /\ kind = [p \in Procs |-> "none"]
    /\ body = [p \in Procs |-> <<>>]
    /\ i = [p \in Procs |-> 0]
    /\ results = [p \in Procs |-> <<>>]
    /\ errors = [p \in Procs |-> <<>>]
    /\ status = [p \in Procs |-> 0]
    /\ resultIdx = [p \in Procs |-> <<>>]
    /\ attempts = [p \in Procs |-> <<>>]
    /\ reported = [e \in Emails |-> 0]

Init == UserInit /\ CacheInit

\* The client of the bulk endpoint and the other clients of the service.
BulkProcs == {1}
OtherProcs == Procs \ BulkProcs

\* One bulk request of any content at a time, beside the single creates
\* of other clients.
Next ==
    \/ (\E p \in BulkProcs : StartBulk(p, Bodies)) /\ UNCHANGED cacheVars
    \/ (\E p \in BulkProcs : BulkStep(p)) /\ UNCHANGED cacheVars
    \/ (\E p \in OtherProcs : CreateOne(p, Objects)) /\ UNCHANGED cacheVars
    \/ (\E p \in Procs : Finish(p)) /\ UNCHANGED cacheVars

Spec == Init /\ [][Next]_vars

\* Bulk requests of a valid item and registrations beside every other
\* handler: each pair of handlers that suspend is in flight together.
CrudNext ==
    \/ (\E p \in BulkProcs : StartBulk(p, ValidBodies)) /\ UNCHANGED cacheVars
    \/ (\E p \in BulkProcs : BulkStep(p)) /\ UNCHANGED cacheVars
    \/ (\E p \in Procs : RegisterFind(p, Registrations)) /\ UNCHANGED cacheVars
    \/ (\E p \in Procs : RegisterCreate(p)) /\ UNCHANGED cacheVars
    \/ (\E p \in OtherProcs : CreateOne(p, Objects)) /\ UNCHANGED cacheVars
    \/ (\E p \in OtherProcs : Update(p)) /\ UNCHANGED cacheVars
    \/ (\E p \in OtherProcs : Delete(p)) /\ UNCHANGED cacheVars
    \/ (\E p \in Procs : Finish(p)) /\ UNCHANGED cacheVars

CrudSpec == Init /\ [][CrudNext]_vars

\* Reads through cache() and invalidations through clearCache() beside
\* writes to the data, with the store failing any of its commands.
CacheNext ==
    \/ (\E p \in Readers : CacheGet(p)) /\ UNCHANGED userVars
    \/ (\E p \in Readers : Load(p)) /\ UNCHANGED userVars
    \/ (\E p \in Readers : Respond(p)) /\ UNCHANGED userVars
    \/ UnhandledRejection /\ UNCHANGED userVars
    \/ (\E q \in Clearers : ClearKeys(q)) /\ UNCHANGED userVars
    \/ (\E q \in Clearers : ClearDel(q)) /\ UNCHANGED userVars
    \/ Write /\ UNCHANGED userVars
    \/ Tick /\ UNCHANGED userVars
    \/ (\E p \in CacheProcs : CacheFinish(p)) /\ UNCHANGED userVars

CacheSpec == Init /\ [][CacheNext]_vars

\* ================================================================ claims
Range(q) == {q[k] : k \in DOMAIN q}
Ascending(q) == \A k \in 1..(Len(q) - 1) : q[k] < q[k + 1]
FailedIdx(p) == [k \in DOMAIN errors[p] |-> errors[p][k].index]

\* The bulk loop of slot p ran to its end and the outcome was sent.
BulkDone(p) == kind[p] = "bulk" /\ pc[p] = "done" /\ status[p] \in {201, 207}

\* C1: when the bulk loop has finished, every input index 0..N-1 is in
\* exactly one of created and failures, failures carry the input index, both
\* sequences are in ascending input order, and each created document is the
\* one of its input item.
C1_IndexPartition ==
    \A p \in Procs :
        BulkDone(p) =>
            /\ Len(results[p]) = Len(resultIdx[p])
            /\ Range(resultIdx[p]) \cup Range(FailedIdx(p)) = 0..(Len(body[p]) - 1)
            /\ Range(resultIdx[p]) \cap Range(FailedIdx(p)) = {}
            /\ Ascending(resultIdx[p])
            /\ Ascending(FailedIdx(p))
            /\ \A k \in DOMAIN results[p] :
                results[p][k].email = CastEmail(body[p][resultIdx[p][k] + 1].email).s

\* C1 witness: a finished bulk request with a created item and a failed one.
C1_Witness ==
    \E p \in Procs : BulkDone(p) /\ Len(results[p]) > 0 /\ Len(errors[p]) > 0

\* C2: a bulk request never aborts: whenever it is answered, the answer is
\* the outcome (201 or 207) and its two sequences cover every input item.
C2_NeverAborts ==
    \A p \in Procs :
        (kind[p] = "bulk" /\ pc[p] = "done") =>
            /\ status[p] \in {201, 207}
            /\ Len(results[p]) + Len(errors[p]) = Len(body[p])

\* An item that passes the validator and the schema: alone it is created.
Creatable(u) == ~u.nul /\ validateUserData(u) = <<>> /\ SchemaValid(u)

C4_ConflictIsFailure ==
    \A p \in Procs :
        \A k \in DOMAIN attempts[p] :
            LET idx == attempts[p][k][1]
                out == attempts[p][k][2]
            IN /\ out = "E11000" =>
                    \E j \in DOMAIN errors[p] :
                        /\ errors[p][j].index = idx
                        /\ \E m \in DOMAIN errors[p][j].errors :
                            errors[p][j].errors[m].path = "email"
               /\ out # "ok" => idx \notin Range(resultIdx[p])
               /\ out = "ok" => idx \in Range(resultIdx[p])

\* C4 witness: a save rejected as duplicate although the request created
\* nothing itself: the email was committed by another client's create.
C4_Witness ==
    \E p \in Procs, q \in Procs :
        /\ kind[p] = "bulk"
        /\ results[p] = <<>>
        /\ \E k \in DOMAIN attempts[p] : attempts[p][k][2] = "E11000"
        /\ kind[q] = "create" /\ status[q] = 201

\* C5: no two stored records have the same email, stored emails are
\* trimmed and in lower case, and per email the creations answered as
\* success never exceed by more than one the records of that email gone
\* since: of two requests creating one email, at most one succeeds.
C5_UniqueEmails ==
    /\ \A d \in store, o \in store : d.email = o.email => d = o
    /\ \A d \in store : d.email = Lowercase(Trim(d.email))
    /\ \A e \in Emails : reported[e] <= 1

\* C5 witness: a registration found no user, and before its create another
\* request stored a record with its email.
C5_Witness ==
    \E p \in Procs :
        /\ kind[p] = "register" /\ pc[p] = "create"
        /\ \E d \in store : d.email = CastEmail(body[p][1].email).s

\* Every field of document d absent from body f has its value in d2.
KeepsAbsent(d, d2, f) ==
    /\ d2.id = d.id
    /\ ~Present(f.name) => d2.name = d.name
    /\ ~Present(f.email) => d2.email = d.email
    /\ ~Present(f.age) => d2.age = d.age

\* C10 as stated: an update changes only the fields present in the request,
\* and for an identifier of no stored record it answers 404 and changes
\* nothing (a connection failure aside).
C10_Original ==
    [][\A p \in OtherProcs : (kind'[p] = "update" /\ pc[p] = "idle") =>
       \A id \in IdParams, f \in UpdateBodies :
        UpdateRequest(p, id, f) =>
            /\ \A d \in store : \E d2 \in store' :
                IF d.id = id THEN KeepsAbsent(d, d2, f) ELSE d2 = d
            /\ (IsObjectId(id) /\ (~\E d \in store : d.id = id) /\ status'[p] # 500) =>
                (status'[p] = 404 /\ store' = store)]_vars

\* C10 amended: an update changes only the fields present in the request and
\* no other record; for a well-formed identifier of no stored record it
\* answers 404 when the request's fields pass the schema's validators (they
\* run before the lookup: 400 otherwise), a connection failure aside, and an
\* update that changes the store answers 200.
C10_PartialUpdate ==
    [][\A p \in OtherProcs : (kind'[p] = "update" /\ pc[p] = "idle") =>
       \A id \in IdParams, f \in UpdateBodies :
        /\ (store' # store /\ UpdateRequest(p, id, f)) =>
            /\ \A d \in store : \E d2 \in store' :
                IF d.id = id THEN KeepsAbsent(d, d2, f) ELSE d2 = d
            /\ Cardinality(store') = Cardinality(store)
            /\ status'[p] = 200
        /\ (/\ IsObjectId(id)
            /\ ~\E d \in store : d.id = id
            /\ status'[p] \notin {404, 500}
            /\ UpdateValid(f)) => ~UpdateRequest(p, id, f)]_vars

\* C10 witness: an update answered 200 left a record with the name of
\* ItemA and an age no create gives it.
C10_Witness ==
    \E p \in Procs :
        /\ kind[p] = "update" /\ pc[p] = "done" /\ status[p] = 200
        /\ \E d \in store : d.name = <<"A">> /\ d.age = 30

\* C6: a read whose lookup is answered while the last body stored under its
\* key is still due (stored by a completed read that answered 200, its ttl
\* not elapsed, not removed by an invalidation since) is served from the
\* cache: it answers 200 with the identical body and the downstream handler
\* is not invoked for it.
C6_ReadThroughHit ==
    [][\A p \in Readers :
        (/\ cpc[p] = "idle"
         /\ cpc'[p] # "idle"
         /\ logged'[p] # "Cache error"
         /\ Due(lastStore[cacheKey'[p]], now))
        => /\ cpc'[p] = "done"
           /\ logged'[p] = "Serving from cache"
           /\ statusCode'[p] = 200
           /\ sent'[p] = lastStore[cacheKey'[p]].body
           /\ fetched'[p] = Undef]_vars

\* A read served the body stored at version 0 after the data moved on,
\* with no call of the handler.
C6_Witness ==
    \E p \in Readers :
        /\ cpc[p] = "done"
        /\ logged[p] = "Serving from cache"
        /\ sent[p] = Obj(0)
        /\ fetched[p] = Undef
        /\ data = 1

\* C7: whatever commands of the store fail, no request fails: none is cut
\* off by the end of the process, a read answered after a cache error
\* carries the handler's result, and a failed invalidation passes control on.
C7_OutageTolerated ==
    /\ \A p \in CacheProcs : cpc[p] # "failed"
    /\ \A q \in Clearers :
        logged[q] = "Cache clear error" => cpc[q] = "done"
    /\ \A p \in Readers :
        (cpc[p] = "done" /\ logged[p] = "Cache error") => sent[p] = fetched[p]

\* C8: a read that missed and whose handler answers with a status other than
\* 200 sends the handler's error body and stores nothing: the store is left
\* as it was, and a read whose lookup finds no entry for its key goes to the
\* handler again.
C8_FailedLoadNotCached ==
    [][\A p \in Readers :
        /\ (cpc[p] = "respond" /\ cpc'[p] = "done" /\ statusCode[p] # 200)
            => /\ redis' = redis
               /\ unhandled' = unhandled
               /\ sent'[p] = fetched[p]
               /\ statusCode'[p] = statusCode[p]
        /\ (/\ cpc[p] = "idle"
            /\ cpc'[p] # "idle"
            /\ logged'[p] # "Cache error"
            /\ ~redis[cacheKey'[p]].has)
            => cpc'[p] = "load" /\ overridden'[p]]_vars

\* A read missed, its handler answered 500, and its key has no entry.
C8_Witness ==
    \E p \in Readers :
        /\ cpc[p] = "done"
        /\ overridden[p]
        /\ statusCode[p] = 500
        /\ sent[p] = ErrBody
        /\ ~redis[cacheKey[p]].has

\* C9: an invalidation whose commands succeed removes the keys its scan
\* found, all of which match the pattern, and leaves every other entry as it
\* was; when nothing was stored since the scan no matching entry is left and
\* a second invalidation changes nothing; a scan that finds no key changes
\* nothing and passes control on without an error.
C9_Invalidate ==
    [][\A q \in Clearers :
        /\ (cpc[q] = "del" /\ cpc'[q] = "done" /\ logged'[q] = "Cleared cache")
            => /\ \A k \in CacheKeys :
                    IF k \in keys[q] THEN ~redis'[k].has ELSE redis'[k] = redis[k]
               /\ \A k \in keys[q] : Matches(keyPattern[q], k)
               /\ (RedisKeys(redis, keyPattern[q]) \subseteq keys[q])
                    => /\ \A k \in CacheKeys :
                            Matches(keyPattern[q], k) => ~redis'[k].has
                       /\ redis' = Invalidate(redis, keyPattern[q])
                       /\ Invalidate(redis', keyPattern[q]) = redis'
        /\ (cpc[q] = "idle" /\ cpc'[q] # "idle" /\ logged'[q] # "Cache clear error")
            => /\ keys'[q] = {k \in CacheKeys :
                                redis[k].has /\ Matches(keyPattern'[q], k)}
               /\ redis' = redis
               /\ (keys'[q] = {}) =>
                    /\ cpc'[q] = "done"
                    /\ Invalidate(redis, keyPattern'[q]) = redis]_vars

\* An invalidation of "u*" removed the entry of "u1" and left that of "a".
C9_Witness ==
    \E q \in Clearers :
        /\ cpc[q] = "done"
        /\ logged[q] = "Cleared cache"
        /\ keyPattern[q] = <<"u", "*">>
        /\ keys[q] = {KeyU1}
        /\ ~redis[KeyU1].has
        /\ redis[KeyA].has

\* The name is absent, or empty once the surrounding whitespace is trimmed.
NameBlank(u) ==
    \/ u.name.t \in {"undefined", "null"}
    \/ u.name.t = "string" /\ Trim(u.name.s) = <<>>

\* C11: in a finished bulk request every item whose name is absent or empty
\* after trimming is a failure at its index carrying the validator's
\* "Name is required" issue on name, and is not among the created.
C11_BlankNameMissing ==
    \A p \in Procs :
        BulkDone(p) =>
            \A k \in 1..Len(body[p]) :
                NameBlank(body[p][k]) =>
                    /\ \E j \in DOMAIN errors[p] :
                        /\ errors[p][j].index = k - 1
                        /\ Issue("name", "Name is required")
                                \in Range(errors[p][j].errors)
                    /\ (k - 1) \notin Range(resultIdx[p])

\* Items a < b of the bulk request of p, both handled by the loop, where b
\* passes validateUserData and has the email (as the schema stores it) of a,
\* which was created.
LaterOccurrence(p, a, b) ==
    /\ kind[p] = "bulk"
    /\ a < b
    /\ b <= i[p]
    /\ (a - 1) \in Range(resultIdx[p])
    /\ validateUserData(body[p][b]) = <<>>
    /\ CastEmail(body[p][b].email) = CastEmail(body[p][a].email)

\* The outcomes of the saves attempted for input index idx.
SavesOf(p, idx) ==
    {attempts[p][k][2] : k \in {j \in DOMAIN attempts[p] : attempts[p][j][1] = idx}}

StillStored(p, a) ==
    \E k \in DOMAIN results[p] : resultIdx[p][k] = a - 1 /\ results[p][k] \in store

C13_FreshAfterInvalidation ==
    \A q \in Clearers :
        (/\ cpc[q] = "done"
         /\ logged[q] # "Cache clear error"
         /\ dataSeen[q] >= 1)
        => \A k \in CacheKeys :
            (Matches(keyPattern[q], k) /\ redis[k].has)
                => JSONParse(redis[k].val).n >= dataSeen[q]

====
